---- MODULE Spec2Model ----
(***************************************************************************)
(* Model of src/main.py: the Titanic dashboard.  The dataset is loaded and *)
(* prepared once (load_and_prepare_data), after which the Dash callback    *)
(* update_visualization(selected_insight) and the utility                  *)
(* calculate_survival_metrics(df) are served against the module-level df.  *)
(* Spec serves one call at a time; SpecConcurrent serves the callback from *)
(* the threads of the development server, which interleave; SpecSchema     *)
(* starts the script on a frame that may lack one of the columns it reads. *)
(*                                                                         *)
(* Numbers are exact rationals [n, d] with d > 0 in lowest terms.  The two *)
(* non-finite floats the code can produce are NaN = 0/0 and inf = 1/0.     *)
(***************************************************************************)
EXTENDS Integers, Sequences, FiniteSets, TLC

VARIABLES raw, df, observed, phase, last, workers

vars == <<raw, df, observed, phase, last, workers>>

(***************************************************************************)
(* Bounds of the model.                                                    *)
(***************************************************************************)
MaxRows == 3

(***************************************************************************)
(* Float arithmetic as the code uses it (numpy float64 semantics for NaN   *)
(* and division by zero), on exact rationals.                              *)
(***************************************************************************)
Abs(i) == IF i < 0 THEN -i ELSE i

RECURSIVE GCD(_, _)
GCD(a, b) == IF b = 0 THEN a ELSE GCD(b, a % b)

NaN == [n |-> 0, d |-> 0]

Inf == [n |-> 1, d |-> 0]

IsNaN(x) == x.d = 0 /\ x.n = 0

IsFinite(x) == x.d > 0

\* the rational n/d (d > 0) in lowest terms
Rat(n, d) == LET g == GCD(Abs(n), d) IN [n |-> n \div g, d |-> d \div g]

Num(i) == [n |-> i, d |-> 1]

RAdd(x, y) == IF ~IsFinite(x) \/ ~IsFinite(y) THEN NaN
              ELSE Rat(x.n * y.d + y.n * x.d, x.d * y.d)

RSub(x, y) == IF ~IsFinite(x) \/ ~IsFinite(y) THEN NaN
              ELSE Rat(x.n * y.d - y.n * x.d, x.d * y.d)

RMul(x, y) == IF ~IsFinite(x) \/ ~IsFinite(y) THEN NaN
              ELSE Rat(x.n * y.n, x.d * y.d)

\* float64 division of non-negative operands: x/0 is inf, 0/0 is nan, and
\* neither raises (numpy only warns)
RDiv(x, y) == IF ~IsFinite(x) \/ ~IsFinite(y) THEN NaN
              ELSE IF y.n = 0 THEN (IF x.n = 0 THEN NaN ELSE Inf)
              ELSE IF y.n > 0 THEN Rat(x.n * y.d, x.d * y.n)
              ELSE Rat(-(x.n * y.d), x.d * (-y.n))

\* comparisons with NaN are False, as in IEEE 754
RLt(x, y) == IsFinite(x) /\ IsFinite(y) /\ x.n * y.d < y.n * x.d

RLe(x, y) == IsFinite(x) /\ IsFinite(y) /\ x.n * y.d <= y.n * x.d

RGt(x, y) == RLt(y, x)

RGe(x, y) == RLe(y, x)

REq(x, y) == IsFinite(x) /\ IsFinite(y) /\ x.n * y.d = y.n * x.d

(***************************************************************************)
(* Helpers on sequences (columns).                                         *)
(***************************************************************************)
\* the members of a set of indices, ascending
Ascending(K) ==
  [j \in 1..Cardinality(K) |->
     CHOOSE i \in K : Cardinality({k \in K : k <= i}) = j]

\* boolean indexing d[mask]: the rows where the mask is True, in dataset order
Filter(d, mask) ==
  LET keep == Ascending({i \in 1..Len(d) : mask[i]})
  IN [j \in 1..Len(keep) |-> d[keep[j]]]

\* the column of a frame: d[col]
Col(d, c) == [i \in 1..Len(d) |-> d[i][c]]

\* Series.dropna on a numeric column
DropNaN(s) ==
  LET keep == Ascending({i \in 1..Len(s) : ~IsNaN(s[i])})
  IN [j \in 1..Len(keep) |-> s[keep[j]]]

RECURSIVE RSum(_)
RSum(s) == IF s = <<>> THEN Num(0) ELSE RAdd(s[1], RSum(Tail(s)))

\* Series.mean(): NaN are skipped; the mean of nothing is NaN
Mean(s) == LET v == DropNaN(s)
           IN IF v = <<>> THEN NaN ELSE RDiv(RSum(v), Num(Len(v)))

\* Series.min() / Series.max(): NaN are skipped; NaN when nothing is left
Min(s) == LET v == DropNaN(s)
          IN IF v = <<>> THEN NaN
             ELSE v[CHOOSE i \in 1..Len(v) : \A j \in 1..Len(v) : RLe(v[i], v[j])]

Max(s) == LET v == DropNaN(s)
          IN IF v = <<>> THEN NaN
             ELSE v[CHOOSE i \in 1..Len(v) : \A j \in 1..Len(v) : RGe(v[i], v[j])]

\* position of v[i] in the sorted order of v (ties broken by index)
Rank(v, i) == Cardinality({j \in 1..Len(v) :
                 RLt(v[j], v[i]) \/ (REq(v[j], v[i]) /\ j <= i)})

Sorted(v) == [k \in 1..Len(v) |-> v[CHOOSE i \in 1..Len(v) : Rank(v, i) = k]]

\* Series.median(): NaN are skipped; middle value, or the mean of the two
Median(s) ==
  LET v == Sorted(DropNaN(s))
      m == Len(v)
  IN IF m = 0 THEN NaN
     ELSE IF m % 2 = 1 THEN v[(m + 1) \div 2]
     ELSE RDiv(RAdd(v[m \div 2], v[m \div 2 + 1]), Num(2))

\* Series.sum() of the 0/1 column survived, an integer
RECURSIVE ISum(_)
ISum(s) == IF s = <<>> THEN 0 ELSE s[1] + ISum(Tail(s))

\* Series.mean() of the 0/1 column survived
IMean(s) == IF s = <<>> THEN NaN ELSE Rat(ISum(s), Len(s))

(***************************************************************************)
(* The dataset.  seaborn's titanic frame: age and fare are float columns   *)
(* (NaN = missing), sex is an object column, class is a categorical with   *)
(* the categories First, Second, Third, survived is 0/1.                   *)
(***************************************************************************)
Sexes == {"female", "male"}

ClassCategories == <<"First", "Second", "Third">>

Classes == {ClassCategories[i] : i \in 1..Len(ClassCategories)}

AgeLabels == <<"Child", "Teen", "Adult", "Middle-Aged", "Senior">>

FareLabels == <<"Very Low", "Low", "Medium", "High", "Very High", "Extremely High">>

NoLabel == "NaN"

\* pd.cut(x, bins, labels) with the default right=True: x falls in the bin
\* (bins[k], bins[k+1]] and gets labels[k]; outside every bin, or NaN, the
\* result is the missing category
Cut(x, bins, labels) ==
  IF \E k \in 1..Len(labels) : RLt(Num(bins[k]), x) /\ RLe(x, Num(bins[k + 1]))
  THEN labels[CHOOSE k \in 1..Len(labels) :
                 RLt(Num(bins[k]), x) /\ RLe(x, Num(bins[k + 1]))]
  ELSE NoLabel

\* a slip for FillNa: Series.where(s >= v, v), which replaces the missing
\* values and also every value below v
FillNaWhereBelow(x, v) == IF IsNaN(x) \/ RLt(x, v) THEN v ELSE x

\* Series.fillna(v)
FillNa(x, v) == IF IsNaN(x) THEN v ELSE x

\* the columns of a frame (every row has the same ones)
Columns(d) == DOMAIN d[1]

\* the first of the columns `wanted`, in the order they are read, that the
\* frame does not have; "" when it has them all
AbsentColumn(wanted, d) ==
  IF \A i \in 1..Len(wanted) : wanted[i] \in Columns(d) THEN ""
  ELSE wanted[CHOOSE i \in 1..Len(wanted) :
          /\ wanted[i] \notin Columns(d)
          /\ \A j \in 1..(i - 1) : wanted[j] \in Columns(d)]

\* the frame is returned with the columns it was loaded with, age filled,
\* and the two derived columns; it reads the columns age and fare
load_and_prepare_data(r) ==
  LET mean_age == Mean(Col(r, "age"))
  IN [i \in 1..Len(r) |->
        LET age == FillNa(r[i].age, mean_age)
        IN [c \in Columns(r) \cup {"age_grouped", "fare_grouped"} |->
              CASE c = "age" -> age
                [] c = "age_grouped" -> Cut(age, <<0, 12, 20, 40, 60, 80>>, AgeLabels)
                [] c = "fare_grouped" -> Cut(r[i].fare, <<0, 10, 30, 50, 100, 200, 500>>,
                                             FareLabels)
                [] OTHER -> r[i][c]]]

(***************************************************************************)
(* Number-to-text formatting of the f-strings.  A formatted number is kept *)
(* as the integer it shows, scaled by 10^places, with its sign; nan and    *)
(* inf are shown as such by Python's format().                             *)
(***************************************************************************)
RECURSIVE Pow10(_)
Pow10(p) == IF p = 0 THEN 1 ELSE 10 * Pow10(p - 1)

\* round a non-negative rational to the nearest integer, ties to even: what
\* format() does with a float whose value is exactly the rational
RoundHalfEven(n, d) ==
  LET q == n \div d
      r == n - q * d
  IN IF 2 * r < d THEN q
     ELSE IF 2 * r > d THEN q + 1
     ELSE IF q % 2 = 0 THEN q ELSE q + 1

\* f"{x:.<places>f}"
FmtF(x, places) ==
  IF IsNaN(x) THEN [txt |-> "nan", neg |-> FALSE, shown |-> 0, places |-> places, unit |-> ""]
  ELSE IF ~IsFinite(x) THEN [txt |-> "inf", neg |-> FALSE, shown |-> 0, places |-> places, unit |-> ""]
  ELSE [txt |-> "num", neg |-> x.n < 0,
        shown |-> RoundHalfEven(Abs(x.n) * Pow10(places), x.d),
        places |-> places, unit |-> ""]

\* f"{x:.<places>%}": the value times 100, fixed point, then a percent sign
FmtPct(x, places) == [FmtF(RMul(x, Num(100)), places) EXCEPT !.unit = "%"]

\* f"{n}" and f"{n:,}" of an integer
FmtInt(n) == [txt |-> "num", neg |-> n < 0, shown |-> Abs(n), places |-> 0, unit |-> ""]

\* html.P(...) of the stats panel: a label and the numbers it interpolates
P(label, values) == [label |-> label, values |-> values]

(***************************************************************************)
(* pandas Series as an ordered list of (key, value) entries.               *)
(***************************************************************************)
Entry(k, v) == [key |-> k, value |-> v]

Keys(s) == {s[i].key : i \in 1..Len(s)}

\* s[k]; the caller checks k \in Keys(s) first (a missing label is a KeyError)
Get(s, k) == s[CHOOSE i \in 1..Len(s) : s[i].key = k].value

Values(s) == [i \in 1..Len(s) |-> s[i].value]

Index(s) == [i \in 1..Len(s) |-> s[i].key]

\* the distinct values of a column in order of first appearance
Unique(c) ==
  LET first == Ascending({i \in 1..Len(c) : \A j \in 1..(i - 1) : c[j] # c[i]})
  IN [k \in 1..Len(first) |-> c[first[k]]]

\* the members of a sequence of categories that occur in a set, in the
\* order of the categories
KeepCats(cats, occurring) ==
  LET keep == Ascending({i \in 1..Len(cats) : cats[i] \in occurring})
  IN [k \in 1..Len(keep) |-> cats[keep[k]]]

\* len(df[mask]): the number of rows where the mask is True
Count(d, mask) == Cardinality({i \in 1..Len(d) : mask[i]})

\* sort entries by value, largest first, equal values keeping their order
SortDescending(s) ==
  LET rank(i) == Cardinality({j \in 1..Len(s) :
                    s[j].value > s[i].value \/ (s[j].value = s[i].value /\ j <= i)})
  IN [k \in 1..Len(s) |-> s[CHOOSE i \in 1..Len(s) : rank(i) = k]]

\* Series.value_counts() of an int/object column: the values that occur,
\* most frequent first
value_counts(c) ==
  LET u == Unique(c)
  IN SortDescending([k \in 1..Len(u) |->
        Entry(u[k], Cardinality({i \in 1..Len(c) : c[i] = u[k]}))])

\* Series.value_counts() of a categorical column: every category, also those
\* that never occur (count 0), most frequent first
value_counts_categorical(c, cats) ==
  SortDescending([k \in 1..Len(cats) |->
        Entry(cats[k], Cardinality({i \in 1..Len(c) : c[i] = cats[k]}))])

\* the group keys of df.groupby('class'): class is categorical, so the keys
\* are in category order; whether categories without rows are kept is the
\* default of `observed`, which differs between pandas releases
ClassKeys(d, obs) ==
  IF obs THEN KeepCats(ClassCategories, {d[i].class : i \in 1..Len(d)})
  ELSE ClassCategories

\* a slip for SexKeys: the index of df['sex'].value_counts(), the most
\* frequent value first
SexKeysByCount(d) == Index(value_counts(Col(d, "sex")))

\* the group keys of df.groupby('sex'): an object column, so only the values
\* that occur, sorted
SexKeys(d) == KeepCats(<<"female", "male">>, {d[i].sex : i \in 1..Len(d)})

InClass(d, c) == Filter(d, [i \in 1..Len(d) |-> d[i].class = c])

InSex(d, x) == Filter(d, [i \in 1..Len(d) |-> d[i].sex = x])

\* the first label of `wanted`, in order, that is no key of s: the KeyError
\* the lookups raise; "" when every label is found
MissingKey(s, wanted) ==
  IF \A i \in 1..Len(wanted) : wanted[i] \in Keys(s) THEN ""
  ELSE wanted[CHOOSE i \in 1..Len(wanted) :
          /\ wanted[i] \notin Keys(s)
          /\ \A j \in 1..(i - 1) : wanted[j] \in Keys(s)]

NoFig == [archetype |-> "unassigned"]

NoDescription == [heading |-> "unassigned", numbers |-> <<>>, table |-> <<>>]

NoStats == <<>>

\* what one branch of update_visualization leaves behind: the exception it
\* raised ("" when none) and the three locals
Branch(exc, fig, description, stats) ==
  [exc |-> exc, fig |-> fig, description |-> description, stats |-> stats]

Description(heading, numbers) ==
  [heading |-> heading, numbers |-> numbers, table |-> <<>>]

(***************************************************************************)
(* update_visualization, one operator per branch of the if/elif chain.     *)
(***************************************************************************)
survival_counts(d) ==
  LET vc == value_counts(Col(d, "survived"))
      n == Len(d)
      fig == [archetype |-> "bar", title |-> "Overall Survival Counts",
              x |-> <<"Died", "Survived">>, y |-> Values(vc), text |-> Values(vc)]
  IN IF 0 \notin Keys(vc) THEN Branch("KeyError: 0", fig, NoDescription, NoStats)
     ELSE IF 1 \notin Keys(vc) THEN Branch("KeyError: 1", fig, NoDescription, NoStats)
     ELSE
       LET died == Get(vc, 0)
           lived == Get(vc, 1)
           mortality_rate == RMul(Rat(died, n), Num(100))
           survival_rate == RMul(Rat(lived, n), Num(100))
       IN Branch("", fig,
            Description("The Devastating Reality",
              <<FmtInt(n), FmtInt(died), FmtInt(lived), FmtF(mortality_rate, 1)>>),
            << P("Total Passengers", <<FmtInt(n)>>),
               P("Deaths", <<FmtInt(died), FmtF(mortality_rate, 1)>>),
               P("Survivors", <<FmtInt(lived), FmtF(survival_rate, 1)>>),
               P("Odds of Survival", <<FmtF(Rat(n, lived), 1)>>) >>)

age_distribution(d) ==
  LET age == Col(d, "age")
      n == Len(d)
      young_adults == Count(d, [i \in 1..Len(d) |-> RGe(d[i].age, Num(20)) /\ RLt(d[i].age, Num(40))])
      children == Count(d, [i \in 1..Len(d) |-> RLt(d[i].age, Num(18))])
  IN Branch("",
       [archetype |-> "histogram", title |-> "Age Distribution of Titanic Passengers",
        x |-> age, nbins |-> 25, vline |-> Mean(age), annotation |-> FmtF(Mean(age), 1)],
       Description("Young Adult Majority", <<>>),
       << P("Average Age", <<FmtF(Mean(age), 1)>>),
          P("Median Age", <<FmtF(Median(age), 1)>>),
          P("Children (<18)", <<FmtInt(children), FmtF(RMul(Rat(children, n), Num(100)), 1)>>),
          P("Young Adults (20-40)",
            <<FmtInt(young_adults), FmtF(RMul(Rat(young_adults, n), Num(100)), 1)>>),
          P("Age Range", <<FmtF(Min(age), 0), FmtF(Max(age), 0)>>) >>)

fare_by_class(d, obs) ==
  LET keys == ClassKeys(d, obs)
      \* df.groupby('class')['fare'].agg(['mean', 'median', 'min', 'max', 'std'])
      class_fare_stats == [k \in 1..Len(keys) |->
         Entry(keys[k], [mean |-> Mean(Col(InClass(d, keys[k]), "fare")),
                         max  |-> Max(Col(InClass(d, keys[k]), "fare"))])]
      fig == [archetype |-> "box", title |-> "Fare Distribution by Passenger Class",
              x |-> Col(d, "class"), y |-> Col(d, "fare"), color |-> Col(d, "class")]
      description == Description("Economic Stratification", <<>>)
      missing == MissingKey(class_fare_stats, <<"First", "Second", "Third">>)
  IN IF missing # "" THEN Branch("KeyError: " \o missing, fig, description, NoStats)
     ELSE
       LET first == Get(class_fare_stats, "First")
           second == Get(class_fare_stats, "Second")
           third == Get(class_fare_stats, "Third")
       IN Branch("", fig, description,
            << P("First Class:", <<>>),
               P("Average", <<FmtF(first.mean, 2)>>),
               P("Max", <<FmtF(first.max, 2)>>),
               P("Second Class:", <<>>),
               P("Average", <<FmtF(second.mean, 2)>>),
               P("Third Class:", <<>>),
               P("Average", <<FmtF(third.mean, 2)>>),
               P("Price Ratio (1st:3rd)", <<FmtF(RDiv(first.mean, third.mean), 1)>>) >>)

\* df[...]['survived'].mean()
SurvivedMean(d) == IMean(Col(d, "survived"))

age_vs_fare(d) ==
  LET fare_median == Median(Col(d, "fare"))
      high_fare_survival == SurvivedMean(Filter(d, [i \in 1..Len(d) |-> RGt(d[i].fare, fare_median)]))
      low_fare_survival == SurvivedMean(Filter(d, [i \in 1..Len(d) |-> RLe(d[i].fare, fare_median)]))
      young_high_fare == SurvivedMean(Filter(d, [i \in 1..Len(d) |-> RLt(d[i].age, Num(40)) /\ RGt(d[i].fare, fare_median)]))
      old_low_fare == SurvivedMean(Filter(d, [i \in 1..Len(d) |-> RGe(d[i].age, Num(40)) /\ RLe(d[i].fare, fare_median)]))
  IN Branch("",
       [archetype |-> "scatter", title |-> "Age vs Fare by Survival Status",
        x |-> Col(d, "age"), y |-> Col(d, "fare"), color |-> Col(d, "survived"),
        hover_data |-> <<Col(d, "class"), Col(d, "sex")>>],
       Description("Wealth and Survival Connection", <<>>),
       << P("High Fare", <<FmtF(fare_median, 2), FmtPct(high_fare_survival, 1)>>),
          P("Low Fare", <<FmtF(fare_median, 2), FmtPct(low_fare_survival, 1)>>),
          P("Wealth Advantage", <<FmtPct(RSub(high_fare_survival, low_fare_survival), 1)>>),
          P("Young + Wealthy", <<FmtPct(young_high_fare, 1)>>),
          P("Old + Poor", <<FmtPct(old_low_fare, 1)>>) >>)

\* df.groupby('class')['survived'].mean()
ClassSurvival(d, obs) ==
  LET keys == ClassKeys(d, obs)
  IN [k \in 1..Len(keys) |-> Entry(keys[k], SurvivedMean(InClass(d, keys[k])))]

\* a slip for ClassCounts: .sum() of survived where .size() is meant
ClassCountsSummingSurvived(d, obs) ==
  LET keys == ClassKeys(d, obs)
  IN [k \in 1..Len(keys) |-> Entry(keys[k], ISum(Col(InClass(d, keys[k]), "survived")))]

\* df.groupby('class').size()
ClassCounts(d, obs) ==
  LET keys == ClassKeys(d, obs)
  IN [k \in 1..Len(keys) |-> Entry(keys[k], Len(InClass(d, keys[k])))]

\* df.groupby('class')['survived'].sum(): the sum of no rows is 0
ClassSurvivors(d, obs) ==
  LET keys == ClassKeys(d, obs)
  IN [k \in 1..Len(keys) |-> Entry(keys[k], ISum(Col(InClass(d, keys[k]), "survived")))]

survival_by_class(d, obs) ==
  LET class_survival == ClassSurvival(d, obs)
      class_counts == ClassCounts(d, obs)
      class_survivors == ClassSurvivors(d, obs)
      rates == Values(class_survival)
      fig == [archetype |-> "bar", title |-> "Survival Rate by Passenger Class",
              x |-> Index(class_survival), y |-> rates,
              text |-> [i \in 1..Len(rates) |-> FmtPct(rates[i], 1)]]
      description == Description("Class-Based Life and Death", <<>>)
      missing == MissingKey(class_survival, <<"First", "Second", "Third">>)
      line(c) == P("survived", <<FmtInt(Get(class_survivors, c)), FmtInt(Get(class_counts, c)),
                                 FmtPct(Get(class_survival, c), 1)>>)
  IN IF missing # "" THEN Branch("KeyError: " \o missing, fig, description, NoStats)
     ELSE Branch("", fig, description,
            << P("First Class:", <<>>), line("First"),
               P("Second Class:", <<>>), line("Second"),
               P("Third Class:", <<>>), line("Third"),
               P("Class Advantage",
                 <<FmtPct(RSub(Get(class_survival, "First"), Get(class_survival, "Third")), 1)>>) >>)

age_by_class(d, obs) ==
  LET keys == ClassKeys(d, obs)
      \* df.groupby('class')['age'].agg(['mean', 'median', 'std'])
      by_class == [k \in 1..Len(keys) |->
                     Entry(keys[k], [mean |-> Mean(Col(InClass(d, keys[k]), "age"))])]
      fig == [archetype |-> "violin", title |-> "Age Distribution by Passenger Class",
              x |-> Col(d, "class"), y |-> Col(d, "age"), color |-> Col(d, "class")]
      description == Description("Age and Economic Status", <<>>)
      missing == MissingKey(by_class, <<"First", "Second", "Third">>)
  IN IF missing # "" THEN Branch("KeyError: " \o missing, fig, description, NoStats)
     ELSE Branch("", fig, description,
            << P("First Class:", <<>>),
               P("Average", <<FmtF(Get(by_class, "First").mean, 1)>>),
               P("Second Class:", <<>>),
               P("Average", <<FmtF(Get(by_class, "Second").mean, 1)>>),
               P("Third Class:", <<>>),
               P("Average", <<FmtF(Get(by_class, "Third").mean, 1)>>),
               P("Age Gap",
                 <<FmtF(RSub(Get(by_class, "First").mean, Get(by_class, "Third").mean), 1)>>) >>)

\* a slip for PivotTable: groupby(..., sort=False), which lists the groups
\* in the order they first occur in the data
PivotTableUnsorted(d, obs) ==
  LET grouped == Filter(d, [i \in 1..Len(d) |-> d[i].age_grouped # NoLabel])
      rows == Unique(Col(grouped, "age_grouped"))
      cols == Unique(Col(grouped, "class"))
  IN [rows |-> rows, cols |-> cols,
      z |-> [i \in 1..Len(rows) |-> [j \in 1..Len(cols) |->
               SurvivedMean(Filter(grouped, [r \in 1..Len(grouped) |->
                 grouped[r].age_grouped = rows[i] /\ grouped[r].class = cols[j]]))]]]

\* df.groupby(['age_grouped', 'class'])['survived'].mean().unstack(): rows
\* whose age_grouped is missing belong to no group
PivotTable(d, obs) ==
  LET grouped == Filter(d, [i \in 1..Len(d) |-> d[i].age_grouped # NoLabel])
      rows == IF obs
              THEN KeepCats(AgeLabels, {grouped[i].age_grouped : i \in 1..Len(grouped)})
              ELSE AgeLabels
      cols == IF obs
              THEN KeepCats(ClassCategories, {grouped[i].class : i \in 1..Len(grouped)})
              ELSE ClassCategories
  IN [rows |-> rows, cols |-> cols,
      z |-> [i \in 1..Len(rows) |-> [j \in 1..Len(cols) |->
               SurvivedMean(Filter(grouped, [r \in 1..Len(grouped) |->
                 grouped[r].age_grouped = rows[i] /\ grouped[r].class = cols[j]]))]]]

\* pivot_table.stack(): the cells that are not NaN, row by row
Stack(pt) ==
  LET nc == Len(pt.cols)
      row(k) == ((k - 1) \div nc) + 1
      col(k) == ((k - 1) % nc) + 1
      cells == Ascending({k \in 1..(Len(pt.rows) * nc) : ~IsNaN(pt.z[row(k)][col(k)])})
  IN [k \in 1..Len(cells) |->
        Entry(<<pt.rows[row(cells[k])], pt.cols[col(cells[k])]>>,
              pt.z[row(cells[k])][col(cells[k])])]

\* Series.idxmax() / idxmin(): the label of the first largest / smallest value
IdxMax(s) == s[CHOOSE i \in 1..Len(s) :
                 /\ \A j \in 1..Len(s) : RGe(s[i].value, s[j].value)
                 /\ \A j \in 1..(i - 1) : ~REq(s[j].value, s[i].value)].key

IdxMin(s) == s[CHOOSE i \in 1..Len(s) :
                 /\ \A j \in 1..Len(s) : RLe(s[i].value, s[j].value)
                 /\ \A j \in 1..(i - 1) : ~REq(s[j].value, s[i].value)].key

age_class_heatmap(d, obs) ==
  LET pivot_table == PivotTable(d, obs)
      stacked == Stack(pivot_table)
      fig == [archetype |-> "heatmap", title |-> "Survival Rate Heatmap: Age Group vs Class",
              y |-> pivot_table.rows, x |-> pivot_table.cols, z |-> pivot_table.z]
      description == Description("Double Advantage Effect", <<>>)
  IN IF stacked = <<>>
     THEN Branch("ValueError: attempt to get argmax of an empty sequence",
                 fig, description, NoStats)
     ELSE
       LET best_combo_rate == Max(Values(stacked))
           worst_combo_rate == Min(Values(stacked))
           best_combo_idx == IdxMax(stacked)
           worst_combo_idx == IdxMin(stacked)
       IN Branch("", fig, description,
            << P("Best Survival Rate", <<FmtPct(best_combo_rate, 1)>>),
               P(best_combo_idx[1] \o " in " \o best_combo_idx[2] \o " Class", <<>>),
               P("Worst Survival Rate", <<FmtPct(worst_combo_rate, 1)>>),
               P(worst_combo_idx[1] \o " in " \o worst_combo_idx[2] \o " Class", <<>>),
               P("Maximum Advantage Gap",
                 <<FmtPct(RSub(best_combo_rate, worst_combo_rate), 1)>>) >>)

gender_survival(d) ==
  LET keys == SexKeys(d)
      \* df.groupby('sex')['survived'].mean(), .size(), ['survived'].sum()
      rate == [k \in 1..Len(keys) |-> Entry(keys[k], SurvivedMean(InSex(d, keys[k])))]
      gender_counts == [k \in 1..Len(keys) |-> Entry(keys[k], Len(InSex(d, keys[k])))]
      gender_survivors == [k \in 1..Len(keys) |->
                             Entry(keys[k], ISum(Col(InSex(d, keys[k]), "survived")))]
      rates == Values(rate)
      fig == [archetype |-> "bar", title |-> "Survival Rate by Gender",
              x |-> <<"Female", "Male">>, y |-> rates,
              text |-> [i \in 1..Len(rates) |-> FmtPct(rates[i], 1)]]
      description == Description("Women and Children First", <<>>)
      missing == MissingKey(rate, <<"female", "male">>)
      line(x) == P("survived", <<FmtInt(Get(gender_survivors, x)), FmtInt(Get(gender_counts, x)),
                                 FmtPct(Get(rate, x), 1)>>)
  IN IF missing # "" THEN Branch("KeyError: " \o missing, fig, description, NoStats)
     ELSE Branch("", fig, description,
            << P("Women:", <<>>), line("female"),
               P("Men:", <<>>), line("male"),
               P("Gender Advantage",
                 <<FmtF(RDiv(Get(rate, "female"), Get(rate, "male")), 1)>>),
               P("Absolute Difference",
                 <<FmtPct(RSub(Get(rate, "female"), Get(rate, "male")), 1)>>) >>)

\* str.title() of the two values of sex
Title(x) == IF x = "female" THEN "Female" ELSE "Male"

\* pd.crosstab([df['sex'], df['class']], df['survived'], normalize='index'):
\* one row per (sex, class) pair that has passengers, one column per value
\* of survived that occurs, each row divided by its total
CrossTab(d) ==
  LET pairs == Ascending({k \in 1..6 :
                 \E i \in 1..Len(d) :
                    /\ d[i].sex = <<"female", "male">>[((k - 1) \div 3) + 1]
                    /\ d[i].class = ClassCategories[((k - 1) % 3) + 1]})
      sex(k) == <<"female", "male">>[((pairs[k] - 1) \div 3) + 1]
      class(k) == ClassCategories[((pairs[k] - 1) % 3) + 1]
  IN [columns |-> {d[i].survived : i \in 1..Len(d)},
      index |-> [k \in 1..Len(pairs) |-> <<sex(k), class(k)>>],
      survived |-> [k \in 1..Len(pairs) |->
         SurvivedMean(Filter(d, [i \in 1..Len(d) |-> d[i].sex = sex(k) /\ d[i].class = class(k)]))]]

Panel(title, traces) == [title |-> title, traces |-> traces]

multi_factor(d) ==
  LET cross_tab == CrossTab(d)
      bars == [k \in 1..Len(cross_tab.index) |->
                [type |-> "bar",
                 name |-> Title(cross_tab.index[k][1]) \o " " \o cross_tab.index[k][2],
                 x |-> <<Title(cross_tab.index[k][1]) \o " " \o cross_tab.index[k][2]>>,
                 y |-> <<cross_tab.survived[k]>>]]
      lived == Filter(d, [i \in 1..Len(d) |-> d[i].survived = 1])
      died == Filter(d, [i \in 1..Len(d) |-> d[i].survived = 0])
      class_counts == value_counts_categorical(Col(d, "class"), ClassCategories)
      fig == [archetype |-> "subplots", title |-> "Multi-Factor Survival Analysis",
              panels |-> <<
                Panel("Survival by Gender & Class", bars),
                Panel("Age Distribution by Survival",
                  << [type |-> "histogram", name |-> "Survived", x |-> Col(lived, "age")],
                     [type |-> "histogram", name |-> "Died", x |-> Col(died, "age")] >>),
                Panel("Fare vs Age (by Survival)",
                  << [type |-> "scatter", name |-> "Survived",
                      x |-> Col(lived, "age"), y |-> Col(lived, "fare")],
                     [type |-> "scatter", name |-> "Died",
                      x |-> Col(died, "age"), y |-> Col(died, "fare")] >>),
                Panel("Class Distribution",
                  << [type |-> "pie", values |-> Values(class_counts),
                      labels |-> Index(class_counts)] >>) >>]
      best_group_survival ==
        SurvivedMean(Filter(d, [i \in 1..Len(d) |-> d[i].class = "First" /\ d[i].sex = "female"]))
      worst_group_survival ==
        SurvivedMean(Filter(d, [i \in 1..Len(d) |-> d[i].class = "Third" /\ d[i].sex = "male"]))
      young_first_class ==
        SurvivedMean(Filter(d, [i \in 1..Len(d) |-> d[i].class = "First" /\ RLt(d[i].age, Num(30))]))
      old_first_class ==
        SurvivedMean(Filter(d, [i \in 1..Len(d) |-> d[i].class = "First" /\ RGe(d[i].age, Num(50))]))
  IN IF 1 \notin cross_tab.columns
     THEN Branch("KeyError: 1", NoFig, NoDescription, NoStats)
     ELSE Branch("", fig,
            Description("Comprehensive Analysis", <<>>),
            << P("Best Group (1st Class Women)", <<FmtPct(best_group_survival, 1)>>),
               P("Worst Group (3rd Class Men)", <<FmtPct(worst_group_survival, 1)>>),
               P("Maximum Group Gap",
                 <<FmtPct(RSub(best_group_survival, worst_group_survival), 1)>>),
               P("Young 1st Class", <<FmtPct(young_first_class, 1)>>),
               P("Old 1st Class", <<FmtPct(old_first_class, 1)>>),
               P("Age still mattered even in 1st class!", <<>>) >>)

\* Series.corr (Pearson) over the rows where both values are present.  The
\* coefficient is kept exactly, as its sign and its square; it is NaN for
\* fewer than two such rows and when either column is constant on them.
Corr(a, b) ==
  LET both == Ascending({i \in 1..Len(a) : ~IsNaN(a[i]) /\ ~IsNaN(b[i])})
      x == [k \in 1..Len(both) |-> a[both[k]]]
      y == [k \in 1..Len(both) |-> b[both[k]]]
      dx == [k \in 1..Len(both) |-> RSub(x[k], Mean(x))]
      dy == [k \in 1..Len(both) |-> RSub(y[k], Mean(y))]
      sxy == RSum([k \in 1..Len(both) |-> RMul(dx[k], dy[k])])
      sxx == RSum([k \in 1..Len(both) |-> RMul(dx[k], dx[k])])
      syy == RSum([k \in 1..Len(both) |-> RMul(dy[k], dy[k])])
  IN IF Len(both) < 2 \/ sxx.n = 0 \/ syy.n = 0
     THEN [txt |-> "nan", neg |-> FALSE, square |-> NaN]
     ELSE [txt |-> "num", neg |-> sxy.n < 0,
           square |-> RDiv(RMul(sxy, sxy), RMul(sxx, syy))]

\* the count and its share of the dataset, f"{k:,} ({k/len(df)*100:.1f}%)"
CountAndShare(k, n) == <<FmtInt(k), FmtF(RMul(Rat(k, n), Num(100)), 1)>>

\* the 'Value' column of summary_data, row by row beside its 'Metric'
summary_data(d) ==
  LET n == Len(d)
  IN << P("Total Passengers", <<FmtInt(n)>>),
        P("Survival Rate", <<FmtPct(SurvivedMean(d), 1)>>),
        P("Average Age", <<FmtF(Mean(Col(d, "age")), 1)>>),
        P("Average Fare", <<FmtF(Mean(Col(d, "fare")), 2)>>),
        P("Male Passengers", CountAndShare(Count(d, [i \in 1..Len(d) |-> d[i].sex = "male"]), n)),
        P("Female Passengers", CountAndShare(Count(d, [i \in 1..Len(d) |-> d[i].sex = "female"]), n)),
        P("First Class", CountAndShare(Count(d, [i \in 1..Len(d) |-> d[i].class = "First"]), n)),
        P("Second Class", CountAndShare(Count(d, [i \in 1..Len(d) |-> d[i].class = "Second"]), n)),
        P("Third Class", CountAndShare(Count(d, [i \in 1..Len(d) |-> d[i].class = "Third"]), n)),
        P("Children (<18)", CountAndShare(Count(d, [i \in 1..Len(d) |-> RLt(d[i].age, Num(18))]), n)),
        P("Adults (18-64)",
          CountAndShare(Count(d, [i \in 1..Len(d) |-> RGe(d[i].age, Num(18)) /\ RLt(d[i].age, Num(65))]), n)),
        P("Seniors (65+)", CountAndShare(Count(d, [i \in 1..Len(d) |-> RGe(d[i].age, Num(65))]), n)) >>

\* df.isnull().sum().sum()
MissingValues(d) ==
  Count(d, [i \in 1..Len(d) |-> IsNaN(d[i].age)]) + Count(d, [i \in 1..Len(d) |-> IsNaN(d[i].fare)])
  + Count(d, [i \in 1..Len(d) |-> d[i].age_grouped = NoLabel])
  + Count(d, [i \in 1..Len(d) |-> d[i].fare_grouped = NoLabel])

data_overview(d) ==
  LET summary_df == summary_data(d)
      survival_rates == << SurvivedMean(d),
                           SurvivedMean(InSex(d, "male")),
                           SurvivedMean(InSex(d, "female")),
                           SurvivedMean(InClass(d, "First")),
                           SurvivedMean(InClass(d, "Second")),
                           SurvivedMean(InClass(d, "Third")) >>
      \* .max() and .min() skip the NaN of a class without rows, so the
      \* classes that occur decide the range whatever `observed` is
      by_class == Values(ClassSurvival(d, TRUE))
      by_sex == [k \in 1..Len(SexKeys(d)) |-> SurvivedMean(InSex(d, SexKeys(d)[k]))]
  IN Branch("",
       [archetype |-> "bar", title |-> "Survival Rates Across Different Categories",
        x |-> <<"Overall", "Male", "Female", "First Class", "Second Class", "Third Class">>,
        y |-> [i \in 1..6 |-> RMul(survival_rates[i], Num(100))],
        text |-> [i \in 1..6 |-> FmtPct(survival_rates[i], 1)]],
       [heading |-> "Dataset Overview", numbers |-> <<>>, table |-> summary_df],
       << P("Advanced Insights:", <<>>),
          P("Age-Fare Correlation", <<Corr(Col(d, "fare"), Col(d, "age"))>>),
          P("Class Survival Range", <<FmtPct(RSub(Max(by_class), Min(by_class)), 1)>>),
          P("Gender Survival Range", <<FmtPct(RSub(Max(by_sex), Min(by_sex)), 1)>>),
          P("Missing Data", <<FmtInt(MissingValues(d))>>),
          P("Fun Facts:", <<>>),
          P("Youngest", <<FmtF(Min(Col(d, "age")), 1)>>),
          P("Oldest", <<FmtF(Max(Col(d, "age")), 1)>>),
          P("Most Expensive Ticket", <<FmtF(Max(Col(d, "fare")), 2)>>),
          P("Free Tickets", <<FmtInt(Count(d, [i \in 1..Len(d) |-> REq(d[i].fare, Num(0))]))>>) >>)

(***************************************************************************)
(* The selector and the dispatch of update_visualization.                  *)
(***************************************************************************)
\* the 'value' entries of insight_options, in order
insight_options ==
  << "survival_counts", "age_distribution", "fare_by_class", "age_vs_fare",
     "survival_by_class", "age_by_class", "age_class_heatmap", "gender_survival",
     "multi_factor", "data_overview" >>

\* the string each test of the if/elif chain compares selected_insight with,
\* in the order of the chain
BranchTests ==
  << "survival_counts", "age_distribution", "fare_by_class", "age_vs_fare",
     "survival_by_class", "age_by_class", "age_class_heatmap", "gender_survival",
     "multi_factor", "data_overview" >>

\* the tests of the chain that selected_insight satisfies
Matching(selected_insight) ==
  {b \in 1..Len(BranchTests) : BranchTests[b] = selected_insight}

\* the body of the b-th branch
RunBranch(b, d, obs) ==
  CASE b = 1 -> survival_counts(d)
    [] b = 2 -> age_distribution(d)
    [] b = 3 -> fare_by_class(d, obs)
    [] b = 4 -> age_vs_fare(d)
    [] b = 5 -> survival_by_class(d, obs)
    [] b = 6 -> age_by_class(d, obs)
    [] b = 7 -> age_class_heatmap(d, obs)
    [] b = 8 -> gender_survival(d)
    [] b = 9 -> multi_factor(d)
    [] b = 10 -> data_overview(d)

NoMetrics == [total_passengers |-> 0]

\* what a call leaves with its caller: the triple it returned, or the
\* exception it raised (then nothing is returned)
Raised(op, key, branch, exc) ==
  [op |-> op, key |-> key, outcome |-> "raised", exc |-> exc, branch |-> branch,
   returned |-> {}, fig |-> NoFig, description |-> NoDescription, stats |-> NoStats,
   metrics |-> NoMetrics]

Returned(key, branch, b) ==
  [op |-> "update_visualization", key |-> key, outcome |-> "returned", exc |-> "",
   branch |-> branch, returned |-> {"fig", "description", "stats"},
   fig |-> b.fig, description |-> b.description, stats |-> b.stats,
   metrics |-> NoMetrics]

\* the columns of df the b-th branch reads, in the order it first reads them
BranchColumns ==
  << <<"survived">>,
     <<"age">>,
     <<"class", "fare">>,
     <<"age", "fare", "survived", "class", "sex">>,
     <<"class", "survived">>,
     <<"class", "age">>,
     <<"age_grouped", "class", "survived">>,
     <<"sex", "survived">>,
     <<"sex", "class", "survived", "age", "fare">>,
     <<"survived", "age", "fare", "sex", "class">> >>

\* reading a column the frame does not have: df[c] and groupby(c) raise
\* KeyError; in branches 2, 3, 4 and 6 the first reader is plotly express
\* (px.histogram, px.box, px.scatter, px.violin), which raises ValueError
MissingColumnError(b, c) ==
  IF b \in {2, 3, 4, 6} THEN "ValueError: " \o c ELSE "KeyError: " \o c

\* the chain runs the first branch whose test holds; when none does, the
\* final `return fig, description, stats` reads locals that were never bound
update_visualization(selected_insight, d, obs) ==
  LET matching == Matching(selected_insight)
  IN IF matching = {}
     THEN Raised("update_visualization", selected_insight, 0,
                 "UnboundLocalError: fig")
     ELSE
       LET branch == CHOOSE b \in matching : \A c \in matching : b <= c
           absent == AbsentColumn(BranchColumns[branch], d)
       IN IF absent # ""
          THEN Raised("update_visualization", selected_insight, branch,
                      MissingColumnError(branch, absent))
          ELSE
            LET b == RunBranch(branch, d, obs)
            IN IF b.exc # ""
               THEN Raised("update_visualization", selected_insight, branch, b.exc)
               ELSE Returned(selected_insight, branch, b)

\* pd.cut(df['age'], bins=[0, 18, 35, 50, 100], labels=[...]) of the metrics
MetricsAgeLabels == <<"Child", "Young Adult", "Middle-aged", "Senior">>

age_groups(d) ==
  [i \in 1..Len(d) |-> Cut(d[i].age, <<0, 18, 35, 50, 100>>, MetricsAgeLabels)]

\* the columns calculate_survival_metrics reads, in the order it reads them
MetricsColumns == <<"survived", "class", "sex", "age">>

\* a dict as the ordered list of its items
calculate_survival_metrics(d, obs) ==
  LET groups == age_groups(d)
      group_keys == IF obs
                    THEN KeepCats(MetricsAgeLabels, {groups[i] : i \in 1..Len(d)})
                    ELSE MetricsAgeLabels
      sexes == SexKeys(d)
      in_group(a) == [k \in 1..Len(Ascending({i \in 1..Len(d) : groups[i] = a})) |->
                        d[Ascending({i \in 1..Len(d) : groups[i] = a})[k]]]
  IN [total_passengers |-> Len(d),
      total_survivors |-> ISum(Col(d, "survived")),
      survival_rate |-> SurvivedMean(d),
      class_survival |-> ClassSurvival(d, obs),
      class_counts |-> ClassCounts(d, obs),
      gender_survival |-> [k \in 1..Len(sexes) |->
                             Entry(sexes[k], SurvivedMean(InSex(d, sexes[k])))],
      gender_counts |-> [k \in 1..Len(sexes) |-> Entry(sexes[k], Len(InSex(d, sexes[k])))],
      age_group_survival |-> [k \in 1..Len(group_keys) |->
                                Entry(group_keys[k], SurvivedMean(in_group(group_keys[k])))]]

\* a slip for df_after_update_visualization: the scatter branch cleaning the
\* shared frame in place, df['fare'] = df['fare'].fillna(0)
df_after_update_visualization_filling_fare(d, selected_insight) ==
  IF selected_insight = "age_vs_fare"
  THEN [i \in 1..Len(d) |-> [d[i] EXCEPT !.fare = FillNa(@, Num(0))]]
  ELSE d

\* a slip for df_after_update_visualization: the box-plot branch dropping
\* the rows without a fare from the shared frame,
\* df.dropna(subset=['fare'], inplace=True)
df_after_update_visualization_dropping_rows(d, selected_insight) ==
  IF selected_insight = "fare_by_class"
  THEN Filter(d, [i \in 1..Len(d) |-> ~IsNaN(d[i].fare)])
  ELSE d

\* the module-level df after a call of update_visualization: the callback
\* only reads it
df_after_update_visualization(d, selected_insight) == d

\* a slip for df_after_calculate_survival_metrics: the age groups assigned
\* as a column, df['age_grouped'] = pd.cut(...), instead of kept local
df_after_calculate_survival_metrics_assigning_column(d) ==
  [i \in 1..Len(d) |-> [d[i] EXCEPT !.age_grouped = age_groups(d)[i]]]

\* the frame passed to calculate_survival_metrics after the call: age_groups
\* is a local Series, no column is assigned
df_after_calculate_survival_metrics(d) == d

(***************************************************************************)
(* The inputs: raw datasets of 1..MaxRows passengers, and the values the   *)
(* dropdown callback can be fired with (a registered key, None when the    *)
(* selection is cleared, or any other string).                             *)
(***************************************************************************)
None == "<None>"

Requests == {insight_options[i] : i \in 1..Len(insight_options)}
            \cup {None, "passenger_list"}

\* three passengers with every field present; row k of a dataset takes its
\* age and fare, or all its fields, from the ((k-1) mod 3 + 1)-th of them
Scenario ==
  << [age |-> Num(30), fare |-> Num(10), sex |-> "male", class |-> "Third", survived |-> 0],
     [age |-> Num(8), fare |-> Num(50), sex |-> "female", class |-> "First", survived |-> 1],
     [age |-> Num(40), fare |-> Num(0), sex |-> "male", class |-> "Second", survived |-> 0] >>

ScenarioRow(k) == Scenario[((k - 1) % Len(Scenario)) + 1]

\* every combination of sex, class and outcome, in a fixed order
Profiles ==
  [p \in 1..12 |->
     [sex |-> <<"female", "male">>[((p - 1) \div 6) + 1],
      class |-> ClassCategories[(((p - 1) \div 2) % 3) + 1],
      survived |-> (p - 1) % 2]]

\* datasets in which sex, class and outcome vary freely (rows listed in the
\* order of Profiles) while age and fare are all present
DemographicDatasets ==
  UNION {{[k \in 1..n |->
             [age |-> ScenarioRow(k).age, fare |-> ScenarioRow(k).fare,
              sex |-> Profiles[f[k]].sex, class |-> Profiles[f[k]].class,
              survived |-> Profiles[f[k]].survived]] :
            f \in {g \in [1..n -> 1..12] : \A i \in 1..(n - 1) : g[i] <= g[i + 1]}} :
         n \in 1..MaxRows}

\* datasets in which any age and any fare may be missing
MissingDatasets ==
  UNION {{[k \in 1..n |->
             [ScenarioRow(k) EXCEPT
                !.age = IF m[k].age THEN NaN ELSE @,
                !.fare = IF m[k].fare THEN NaN ELSE @]] :
            m \in [1..n -> [age : BOOLEAN, fare : BOOLEAN]]} :
         n \in 1..MaxRows}

\* one passenger whose age and fare lie on the outermost bin boundaries of
\* load_and_prepare_data, or just beyond them
BoundaryDatasets ==
  {<<[ScenarioRow(1) EXCEPT !.age = Num(a), !.fare = Num(f)]>> :
     a \in {0, 12, 80, 81}, f \in {0, 10, 500, 512}}

\* no age of the frame is missing
HasAllAges(d) == \A i \in 1..Len(d) : ~IsNaN(d[i].age)

Datasets == DemographicDatasets \cup MissingDatasets \cup BoundaryDatasets

NoCall == Raised("none", "", 0, "")

\* the threads of the development server that run the callback
Workers == {"w1", "w2"}

\* a thread that runs no request
Idle == [pc |-> "idle", key |-> "", seen |-> <<>>, result |-> NoCall]

Init ==
  /\ raw \in Datasets
  /\ df = <<>>
  /\ observed \in BOOLEAN
  /\ phase = "start"
  /\ last = NoCall
  /\ workers = [w \in Workers |-> Idle]

\* the exception that ends the script before app.run_server is reached:
\* load_and_prepare_data reads df['age'] and df['fare'], the prints under
\* __main__ read df['survived']; "" when there is none
StartupError(r) ==
  LET absent == AbsentColumn(<<"age", "fare", "survived">>, r)
  IN IF absent = "" THEN "" ELSE "KeyError: " \o absent

\* the script runs from its first line to app.run_server: the module-level
\* df = load_and_prepare_data(), then the prints under __main__
Startup ==
  /\ phase = "start"
  /\ df' = IF AbsentColumn(<<"age", "fare">>, raw) = ""
           THEN load_and_prepare_data(raw) ELSE df
  /\ phase' = IF StartupError(raw) = "" THEN "ready" ELSE "aborted"
  /\ last' = IF StartupError(raw) = "" THEN last
             ELSE Raised("__main__", "", 0, StartupError(raw))
  /\ UNCHANGED <<raw, observed, workers>>

\* the Dash callback fires with some value of the dropdown
UpdateVisualization ==
  /\ phase = "ready"
  /\ \E selected_insight \in Requests :
       /\ last' = update_visualization(selected_insight, df, observed)
       /\ df' = df_after_update_visualization(df, selected_insight)
  /\ phase' = "served"
  /\ UNCHANGED <<raw, observed, workers>>

CalculateSurvivalMetrics ==
  /\ phase = "ready"
  /\ last' = IF AbsentColumn(MetricsColumns, df) # ""
              THEN Raised("calculate_survival_metrics", "", 0,
                          "KeyError: " \o AbsentColumn(MetricsColumns, df))
              ELSE [Raised("calculate_survival_metrics", "", 0, "") EXCEPT
                      !.outcome = "returned",
                      !.metrics = calculate_survival_metrics(df, observed)]
  /\ df' = df_after_calculate_survival_metrics(df)
  /\ phase' = "served"
  /\ UNCHANGED <<raw, observed, workers>>

\* the call is over: its result has gone to the caller and its locals are
\* gone; only the module-level df remains for the next call
Respond ==
  /\ phase = "served"
  /\ phase' = "ready"
  /\ last' = NoCall
  /\ UNCHANGED <<raw, df, observed, workers>>

Next == Startup \/ UpdateVisualization \/ CalculateSurvivalMetrics \/ Respond

Spec == Init /\ [][Next]_vars

\* the scenario passengers with every age present and the fare of any of
\* them, but not of all, missing
ConcurrentDatasets ==
  {d \in MissingDatasets :
     Len(d) = MaxRows /\ HasAllAges(d) /\ \E i \in 1..Len(d) : ~IsNaN(d[i].fare)}

InitConcurrent ==
  /\ raw \in ConcurrentDatasets
  /\ df = <<>>
  /\ observed \in BOOLEAN
  /\ phase = "start"
  /\ last = NoCall
  /\ workers = [w \in Workers |-> Idle]

\* a thread takes a request and runs the callback as far as the chart: the
\* figure is built from df as the thread reads it now
Begin(w) ==
  /\ phase = "ready"
  /\ workers[w].pc = "idle"
  /\ \E selected_insight \in Requests :
       workers' = [workers EXCEPT ![w] =
                     [pc |-> "charted", key |-> selected_insight, seen |-> df,
                      result |-> NoCall]]
  /\ UNCHANGED <<raw, df, observed, phase, last>>

\* the callback run on the frame as the thread read it first and on the
\* frame as it reads it later
InTwoReads(selected_insight, first, later, obs) ==
  [k \in 1..2 |-> update_visualization(selected_insight, <<first, later>>[k], obs)]

\* what the callback ends with: the chart is built from the first read,
\* narrative and stats from the later one; an exception ends the callback
Combined(run) ==
  IF run[1].outcome = "raised" THEN run[1]
  ELSE IF run[2].outcome = "raised" THEN run[2]
  ELSE [run[2] EXCEPT !.fig = run[1].fig]

\* the thread runs the rest of the callback and has its result
Complete(w) ==
  /\ workers[w].pc = "charted"
  /\ \E run \in {InTwoReads(workers[w].key, workers[w].seen, df, observed)} :
       workers' = [workers EXCEPT ![w] =
                     [pc |-> "done", key |-> workers[w].key, seen |-> <<>>,
                      result |-> Combined(run)]]
  /\ df' = df_after_update_visualization(df, workers[w].key)
  /\ UNCHANGED <<raw, observed, phase, last>>

\* the response has gone out; the thread is free again
Return(w) ==
  /\ workers[w].pc = "done"
  /\ workers' = [workers EXCEPT ![w] = Idle]
  /\ UNCHANGED <<raw, df, observed, phase, last>>

NextConcurrent ==
  \/ Startup
  \/ \E w \in Workers : Begin(w)
  \/ \E w \in Workers : Complete(w)
  \/ \E w \in Workers : Return(w)

SpecConcurrent == InitConcurrent /\ [][NextConcurrent]_vars

\* the fields the dashboard reads from the loaded frame
RequiredFields == {"age", "fare", "sex", "class", "survived"}

\* a frame without the column c
Without(d, c) == [k \in 1..Len(d) |-> [f \in DOMAIN d[k] \ {c} |-> d[k][f]]]

\* the first passengers of Scenario, as a frame with every required field
\* or with one of them absent
SchemaDatasets ==
  LET complete == {[k \in 1..n |-> ScenarioRow(k)] : n \in 1..MaxRows}
  IN complete \cup {Without(d, c) : d \in complete, c \in RequiredFields}

InitSchema ==
  /\ raw \in SchemaDatasets
  /\ df = <<>>
  /\ observed \in BOOLEAN
  /\ phase = "start"
  /\ last = NoCall
  /\ workers = [w \in Workers |-> Idle]

\* the same program started on whatever frame the loader hands it
SpecSchema == InitSchema /\ [][Next]_vars

(***************************************************************************)
(* Properties.                                                             *)
(***************************************************************************)
Registered(key) == \E i \in 1..Len(insight_options) : insight_options[i] = key

\* a call of update_visualization has just ended
Served == phase = "served" /\ last.op = "update_visualization"

ServedKey(key) == Served /\ last.key = key

Delivered == last.outcome = "returned" /\ last.returned = {"fig", "description", "stats"}

\* some row of the dataset is selected by the mask
HasRow(mask) == \E i \in 1..Len(df) : mask[i]

\* C1: the keys of the selector are distinct, each is the test of exactly one
\* branch of update_visualization, and a call with such a key returns a
\* triple with chart, narrative and stats all assigned.
C1_SelectorKeysReturnTriple ==
  /\ \A i, j \in 1..Len(insight_options) :
        i # j => insight_options[i] # insight_options[j]
  /\ \A i \in 1..Len(insight_options) :
        Cardinality(Matching(insight_options[i])) = 1
  /\ (Served /\ Registered(last.key)) => (last.branch > 0 /\ Delivered)

\* C2: a call with a key that is not registered (None included) ends in a
\* recoverable outcome: it does not raise, runs no branch (no aggregation)
\* and delivers a message to the user.
C2_UnknownKeyHandled ==
  (Served /\ ~Registered(last.key)) =>
     /\ last.outcome = "returned"
     /\ last.branch = 0
     /\ "description" \in last.returned

\* C3: once prepared, the dataset is what load_and_prepare_data produced,
\* whatever calls were served since (failed ones included): same rows, same
\* columns, same value in every cell.
C3_DatasetUnchanged ==
  phase # "start" => df = load_and_prepare_data(raw)

\* C3 witness: a call that failed inside a branch has been served and the
\* dataset still holds the prepared rows.
C3_Witness ==
  /\ Served /\ last.outcome = "raised" /\ last.branch > 0
  /\ Len(df) > 1

\* C4: whatever was served before, a call with a registered key yields what
\* that key yields on the dataset as prepared, so two calls with the same
\* key yield identical triples, the metrics of the stats block in the same
\* order.
C4_SameKeySameTriple ==
  (Served /\ Registered(last.key)) =>
     last = update_visualization(last.key, load_and_prepare_data(raw), observed)

\* C4 witness: a registered key has been served a full triple computed from
\* a dataset with a missing fare.
C4_Witness ==
  /\ ServedKey("data_overview") /\ Delivered
  /\ HasRow([i \in 1..Len(df) |-> IsNaN(df[i].fare)])
  /\ Len(last.stats) = 10

\* C5: in gender_survival, when there are women and men and no man survived
\* (the male rate, the denominator of the ratio, is zero), the call returns
\* and the 'Gender Advantage' line shows a 'not applicable' sentinel: neither
\* a number, nor inf, nor nan.
C5_ZeroDenominatorSentinel ==
  (/\ ServedKey("gender_survival")
   /\ HasRow([i \in 1..Len(df) |-> df[i].sex = "female"])
   /\ HasRow([i \in 1..Len(df) |-> df[i].sex = "male"])
   /\ ~HasRow([i \in 1..Len(df) |-> df[i].sex = "male" /\ df[i].survived = 1])) =>
     /\ Delivered
     /\ last.stats[5].label = "Gender Advantage"
     /\ last.stats[5].values[1].txt \notin {"num", "inf", "nan"}

\* the sub-aggregations of multi_factor that have a subgroup without rows:
\* 1 survival by gender and class, 2 age by outcome, 3 fare vs age by
\* outcome, 4 class proportion
UndefinedPanels ==
  {p \in 1..4 :
     \/ p = 1 /\ \E x \in Sexes, c \in Classes :
                   ~HasRow([i \in 1..Len(df) |-> df[i].sex = x /\ df[i].class = c])
     \/ p \in {2, 3} /\ \E o \in {0, 1} : ~HasRow([i \in 1..Len(df) |-> df[i].survived = o])
     \/ p = 4 /\ \E c \in Classes : ~HasRow([i \in 1..Len(df) |-> df[i].class = c])}

\* the trace type each panel of multi_factor draws its data with
PanelTraceType == <<"bar", "histogram", "scatter", "pie">>

SubplotTitles == <<"Survival by Gender & Class", "Age Distribution by Survival",
                   "Fare vs Age (by Survival)", "Class Distribution">>

\* a panel carries a failure marker when it shows anything but its own data
\* traces under its own title
MarkedFailed(panel, i) ==
  \/ panel.title # SubplotTitles[i]
  \/ \E t \in 1..Len(panel.traces) : panel.traces[t].type # PanelTraceType[i]

\* C6: in multi_factor, when exactly one of the four sub-aggregations is
\* undefined, the call returns, the panel of that sub-aggregation carries a
\* failure marker and the other three do not.
C6_CompositeMarksFailedPanel ==
  (ServedKey("multi_factor") /\ Cardinality(UndefinedPanels) = 1) =>
     /\ Delivered
     /\ \A i \in 1..4 : MarkedFailed(last.fig.panels[i], i) <=> i \in UndefinedPanels

\* some group of the insight's grouping has no row in the dataset
EmptyGroup(key) ==
  \/ key = "survival_counts" /\ \E o \in {0, 1} : ~HasRow([i \in 1..Len(df) |-> df[i].survived = o])
  \/ key \in {"fare_by_class", "survival_by_class", "age_by_class"}
     /\ \E c \in Classes : ~HasRow([i \in 1..Len(df) |-> df[i].class = c])
  \/ key = "gender_survival" /\ \E x \in Sexes : ~HasRow([i \in 1..Len(df) |-> df[i].sex = x])

\* C7: in the insights that aggregate per group, a group without rows does
\* not stop the request: the call still returns its triple (in which the
\* group shows an 'undefined' marker).
C7_EmptyGroupCompletes ==
  (Served /\ EmptyGroup(last.key)) => Delivered

\* the height of the bar drawn under a label of a bar chart
BarHeight(fig, label) ==
  fig.y[CHOOSE i \in 1..Len(fig.x) : fig.x[i] = label]

\* C8: in survival_counts, the bar 'Died' is as high as the number of records
\* with survived = 0 and as the Deaths count of the stats block, the bar
\* 'Survived' as the number with survived = 1 and as the Survivors count,
\* and the two heights sum to the number of records.
C8_BarsMatchCounts ==
  (ServedKey("survival_counts") /\ Delivered) =>
     /\ BarHeight(last.fig, "Died") = Count(df, [i \in 1..Len(df) |-> df[i].survived = 0])
     /\ BarHeight(last.fig, "Died") = last.stats[2].values[1].shown
     /\ BarHeight(last.fig, "Survived") = Count(df, [i \in 1..Len(df) |-> df[i].survived = 1])
     /\ BarHeight(last.fig, "Survived") = last.stats[3].values[1].shown
     /\ BarHeight(last.fig, "Died") + BarHeight(last.fig, "Survived") = Len(df)

RECURSIVE SumOfValues(_)
SumOfValues(s) == IF s = <<>> THEN 0 ELSE s[1].value + SumOfValues(Tail(s))

\* the count a row of the summary table shows
TableCount(row) == last.description.table[row].values[1].shown

\* C9: the counts of First, Second and Third sum to the number of records,
\* and so do the counts of male and female, in the summary table of
\* data_overview and in the metrics of calculate_survival_metrics.
C9_CountsSumToTotal ==
  /\ ServedKey("data_overview") =>
        /\ Delivered
        /\ TableCount(1) = Len(df)
        /\ TableCount(7) + TableCount(8) + TableCount(9) = TableCount(1)
        /\ TableCount(5) + TableCount(6) = TableCount(1)
  /\ (phase = "served" /\ last.op = "calculate_survival_metrics") =>
        /\ last.metrics.total_passengers = Len(df)
        /\ SumOfValues(last.metrics.class_counts) = last.metrics.total_passengers
        /\ SumOfValues(last.metrics.gender_counts) = last.metrics.total_passengers

\* C9 witness: the summary table of a dataset with passengers of every
\* class and of both sexes.
C9_Witness ==
  /\ ServedKey("data_overview") /\ Delivered
  /\ \A row \in 5..9 : TableCount(row) > 0

\* a column of the raw dataset has a value to take a mean of
HasValue(column) == \E i \in 1..Len(raw) : ~IsNaN(raw[i][column])

\* every missing value of the column became the mean of the present ones
\* and every present value is unchanged
Imputed(column) ==
  \A i \in 1..Len(raw) :
     df[i][column] = FillNa(raw[i][column], Mean(Col(raw, column)))

\* C10: after preparation (of a dataset whose age and fare columns each have
\* a value) no row is dropped, no age and no fare is missing, each value
\* that was missing is the mean of the column's present values and each
\* present value is unchanged.
C10_AgeAndFareImputed ==
  (phase # "start" /\ HasValue("age") /\ HasValue("fare")) =>
     /\ Len(df) = Len(raw)
     /\ Imputed("age") /\ Imputed("fare")
     /\ \A i \in 1..Len(df) : ~IsNaN(df[i].age) /\ ~IsNaN(df[i].fare)

\* the value lies between the outermost boundaries lo and hi, both included
InRange(x, lo, hi) == ~IsNaN(x) /\ RGe(x, Num(lo)) /\ RLe(x, Num(hi))

\* the value is present and lies beyond the outermost boundaries
OutOfRange(x, lo, hi) == ~IsNaN(x) /\ ~InRange(x, lo, hi)

\* the label the bucketing contract gives a value outside every bin
OutOfRangeMarker == "out of range"

LabelsOf(labels) == {labels[k] : k \in 1..Len(labels)}

\* C11: after preparation every age in [0, 80] has one of the five age
\* labels and every fare in [0, 500] one of the six fare labels, the
\* boundary values included, and every age or fare beyond the outermost
\* boundaries has the 'out of range' marker.
C11_BucketingTotal ==
  phase = "ready" =>
     \A i \in 1..Len(df) :
        /\ InRange(df[i].age, 0, 80) => df[i].age_grouped \in LabelsOf(AgeLabels)
        /\ InRange(df[i].fare, 0, 500) => df[i].fare_grouped \in LabelsOf(FareLabels)
        /\ OutOfRange(df[i].age, 0, 80) => df[i].age_grouped = OutOfRangeMarker
        /\ OutOfRange(df[i].fare, 0, 500) => df[i].fare_grouped = OutOfRangeMarker

\* C12: when an aggregation has run, every row of the prepared dataset has a
\* class, a sex, an age_grouped label and a fare_grouped label: none of the
\* four is missing.
C12_NoMissingGroupValue ==
  Served =>
     \A i \in 1..Len(df) :
        /\ df[i].class \in Classes
        /\ df[i].sex \in Sexes
        /\ df[i].age_grouped # NoLabel
        /\ df[i].fare_grouped # NoLabel

\* the loaded frame has every required field
SchemaComplete == RequiredFields \subseteq Columns(raw)

\* C13: a request is served only after the preparation has run to its end,
\* and on a frame that lacks a required field the startup ends in a fatal
\* SchemaError and no request is served.
C13_StartupBeforeRequests ==
  /\ phase = "served" => df = load_and_prepare_data(raw)
  /\ ~SchemaComplete =>
        /\ phase \in {"start", "aborted"}
        /\ phase = "aborted" => last.exc = "SchemaError"

\* what the key yields on a second snapshot, the three scenario passengers
OnScenario(key) == update_visualization(key, load_and_prepare_data(Scenario), observed)

\* C14: the narrative a registered key returns holds no number computed
\* from the dataset and no table built from it, and it is the narrative the
\* same key returns on another snapshot of the dataset.
C14_NarrativeDependsOnKeyOnly ==
  (Served /\ Registered(last.key) /\ Delivered) =>
     /\ last.description.numbers = <<>>
     /\ last.description.table = <<>>
     /\ OnScenario(last.key).outcome = "returned" =>
           last.description = OnScenario(last.key).description

\* C15: with the callback running in several threads at once, every request
\* ends with what its key yields when run alone on the prepared dataset,
\* and the shared dataset stays as it was prepared.
C15_ConcurrentAsAlone ==
  /\ phase = "ready" => df = load_and_prepare_data(raw)
  /\ \A w \in Workers :
        workers[w].pc = "done" =>
           workers[w].result =
             update_visualization(workers[w].key, load_and_prepare_data(raw), observed)

\* C15 witness: two requests with different keys overlapped, on a dataset
\* with a missing fare: one has returned its triple while the other, begun
\* before that, has its chart built and the rest still to run.
C15_Witness ==
  /\ workers["w1"].pc = "done"
  /\ workers["w1"].result.returned = {"fig", "description", "stats"}
  /\ workers["w2"].pc = "charted"
  /\ workers["w2"].key = "fare_by_class" /\ workers["w1"].key = "age_vs_fare"
  /\ \E i \in 1..Len(df) : IsNaN(df[i].fare)

\* the imputation and bucketing steps applied to the prepared dataset
Rederived == load_and_prepare_data(df)

\* C16: the imputation and bucketing steps applied once more to the
\* prepared dataset leave every age, every age_grouped label and every
\* fare_grouped label as it is, and keep every row.
C16_DerivationIdempotent ==
  phase \in {"ready", "served"} =>
     /\ Len(Rederived) = Len(df)
     /\ \A i \in 1..Len(df) :
           /\ Rederived[i].age = df[i].age
           /\ Rederived[i].age_grouped = df[i].age_grouped
           /\ Rederived[i].fare_grouped = df[i].fare_grouped

\* C16 witness: a prepared dataset in which a missing age was imputed with
\* the mean of the present ones and bucketed, next to a present age that
\* differs from that mean.
C16_Witness ==
  /\ phase = "ready"
  /\ \E i, j \in 1..Len(df) :
        /\ IsNaN(raw[i].age) /\ ~IsNaN(raw[j].age)
        /\ df[i].age = Mean(Col(raw, "age")) /\ df[j].age # df[i].age
        /\ df[i].age_grouped \in LabelsOf(AgeLabels)

\* the place of a label in the declared order
Position(x, declared) == CHOOSE k \in 1..Len(declared) : declared[k] = x

\* the labels are labels of the declared order and follow one another as
\* they do there
InOrderOf(labels, declared) ==
  /\ \A i \in 1..Len(labels) : labels[i] \in LabelsOf(declared)
  /\ \A i, j \in 1..Len(labels) :
        i < j => Position(labels[i], declared) < Position(labels[j], declared)

\* C17: the rows of the heatmap follow the order Child, Teen, Adult,
\* Middle-Aged, Senior and its columns the order First, Second, Third, and
\* the grid has one row of cells per row label and one cell per column.
C17_HeatmapKeepsDeclaredOrder ==
  (ServedKey("age_class_heatmap") /\ Delivered) =>
     /\ InOrderOf(last.fig.y, AgeLabels)
     /\ InOrderOf(last.fig.x, ClassCategories)
     /\ Len(last.fig.z) = Len(last.fig.y)
     /\ \A i \in 1..Len(last.fig.z) : Len(last.fig.z[i]) = Len(last.fig.x)

\* C17 witness: a heatmap of a dataset in which an older age group occurs
\* before a younger one and a lower class before a higher one.
C17_Witness ==
  /\ ServedKey("age_class_heatmap") /\ Delivered
  /\ \E i, j \in 1..Len(df) :
        /\ i < j
        /\ df[i].age_grouped = "Adult" /\ df[j].age_grouped = "Child"
        /\ df[i].class = "Third" /\ df[j].class = "First"

\* the text written on the bar drawn under a label of a bar chart
BarText(fig, label) ==
  fig.text[CHOOSE i \in 1..Len(fig.x) : fig.x[i] = label]

\* the line of the stats block that reports First, Second, Third
ClassStatsLine(c) == 2 * Position(c, ClassCategories)

\* C18: in gender_survival the bars 'Female' and 'Male', and in
\* survival_by_class the bars 'First', 'Second' and 'Third', are each as
\* high as the survival rate of the passengers of that category, and the
\* percentage written on the bar is the one the stats block reports for
\* that category.
C18_BarsCarryOwnRate ==
  /\ (ServedKey("gender_survival") /\ Delivered) =>
        /\ Len(last.fig.y) = Len(last.fig.x)
        /\ \A x \in Sexes :
              /\ BarHeight(last.fig, Title(x)) = SurvivedMean(InSex(df, x))
              /\ BarText(last.fig, Title(x)) =
                    last.stats[IF x = "female" THEN 2 ELSE 4].values[3]
  /\ (ServedKey("survival_by_class") /\ Delivered) =>
        /\ Len(last.fig.y) = Len(last.fig.x)
        /\ \A c \in Classes :
              /\ BarHeight(last.fig, c) = SurvivedMean(InClass(df, c))
              /\ BarText(last.fig, c) = last.stats[ClassStatsLine(c)].values[3]

\* C18 witness: a gender chart of a dataset with more men than women in
\* which the two rates differ.
C18_Witness ==
  /\ ServedKey("gender_survival") /\ Delivered
  /\ Len(InSex(df, "male")) > Len(InSex(df, "female"))
  /\ BarHeight(last.fig, "Female") # BarHeight(last.fig, "Male")

\* the age rows of the summary table a passenger of this age is counted in:
\* 10 Children (<18), 11 Adults (18-64), 12 Seniors (65+)
AgeRows(age) ==
  {row \in 10..12 :
     \/ row = 10 /\ RLt(age, Num(18))
     \/ row = 11 /\ RGe(age, Num(18)) /\ RLt(age, Num(65))
     \/ row = 12 /\ RGe(age, Num(65))}

\* C19: in the summary table of data_overview every passenger is counted in
\* exactly one of the rows Children, Adults and Seniors, each row shows the
\* number of passengers counted in it, and the three counts sum to the
\* total the table shows.
C19_AgeRowsPartition ==
  (ServedKey("data_overview") /\ Delivered) =>
     /\ \A i \in 1..Len(df) : Cardinality(AgeRows(df[i].age)) = 1
     /\ \A row \in 10..12 :
           TableCount(row) = Cardinality({i \in 1..Len(df) : row \in AgeRows(df[i].age)})
     /\ TableCount(10) + TableCount(11) + TableCount(12) = TableCount(1)

====
